---- MODULE Spec2Model ----
(***************************************************************************)
(* Announcement endpoints of the High School Management System API         *)
(* (src/backend/routers/announcements.py), as a state machine over the     *)
(* announcements collection.                                               *)
(*                                                                         *)
(* Representation.  A Python str is a sequence of one-character strings,   *)
(* so that strip(), lower(), date.fromisoformat() and the comparisons of   *)
(* sort keys are computed character by character.  An Optional[T] is a     *)
(* sequence of length at most one: None is <<>> and a present value v is   *)
(* <<v>>.  A datetime.date is a record [year, month, day].  Teacher        *)
(* usernames are opaque keys and are kept as TLA+ strings.                 *)
(*                                                                         *)
(* Store operations are assumed to succeed (the except branches that turn  *)
(* a store exception into 500 are not modelled).                           *)
(***************************************************************************)
EXTENDS Integers, Sequences, FiniteSets, TLC

(***************************************************************************)
(* Optional values and Python truthiness                                   *)
(***************************************************************************)
None == <<>>

Some(v) == <<v>>

\* bool(x) of an Optional[str]: None and "" are falsy
Truthy(opt) == opt # None /\ opt[1] # <<>>

\* Python's `x or None` on an Optional[str]
OrNone(opt) == IF Truthy(opt) THEN opt ELSE None

(***************************************************************************)
(* Characters                                                              *)
(***************************************************************************)
\* the characters that occur, in code point order
Alphabet ==
    <<" ", "-", ".", "0", "1", "2", "3", "4", "5", "6", "7", "8", "9", ":",
      "A", "B", "C", "D", "E", "F", "G", "H", "I", "J", "K", "L", "M",
      "N", "O", "P", "Q", "R", "S", "T", "U", "V", "W", "X", "Y", "Z",
      "a", "b", "c", "d", "e", "f", "g", "h", "i", "j", "k", "l", "m",
      "n", "o", "p", "q", "r", "s", "t", "u", "v", "w", "x", "y", "z">>

\* position of each character in Alphabet (its rank by code point)
CharCodeTable ==
    [c \in {Alphabet[i] : i \in 1..Len(Alphabet)} |->
        CHOOSE i \in 1..Len(Alphabet) : Alphabet[i] = c]

CharCode(c) == CharCodeTable[c]

Uppercase == {Alphabet[i] : i \in CharCode("A")..CharCode("Z")}

Digits == {Alphabet[i] : i \in CharCode("0")..CharCode("9")}

Whitespace == {" ", "\t", "\n", "\r"}

LowerChar(c) ==
    IF c \in Uppercase
    THEN Alphabet[CharCode(c) + (CharCode("a") - CharCode("A"))]
    ELSE c

\* str.lower()
Lower(s) == [i \in 1..Len(s) |-> LowerChar(s[i])]

RECURSIVE LStrip(_)
LStrip(s) == IF s # <<>> /\ Head(s) \in Whitespace THEN LStrip(Tail(s)) ELSE s

RECURSIVE RStrip(_)
RStrip(s) ==
    IF s # <<>> /\ s[Len(s)] \in Whitespace
    THEN RStrip(SubSeq(s, 1, Len(s) - 1))
    ELSE s

\* str.strip()
Strip(s) == RStrip(LStrip(s))

\* a < b for Python str: decided by the first position where they differ,
\* and by length when one is a prefix of the other
StrLess(a, b) ==
    LET n == IF Len(a) < Len(b) THEN Len(a) ELSE Len(b)
        differ == {i \in 1..n : a[i] # b[i]}
    IN  IF differ = {} THEN Len(a) < Len(b)
        ELSE LET k == CHOOSE i \in differ : \A j \in differ : i <= j
             IN  CharCode(a[k]) < CharCode(b[k])

(***************************************************************************)
(* Dates                                                                   *)
(***************************************************************************)
DigitValue(c) == CharCode(c) - CharCode("0")

IsLeap(y) == y % 4 = 0 /\ (y % 100 # 0 \/ y % 400 = 0)

DaysInMonth(y, m) ==
    IF m = 2 THEN (IF IsLeap(y) THEN 29 ELSE 28)
    ELSE IF m \in {4, 6, 9, 11} THEN 30
    ELSE 31

\* date.fromisoformat on YYYY-MM-DD; <<>> stands for ValueError
FromIsoFormat(s) ==
    IF /\ Len(s) = 10
       /\ s[5] = "-" /\ s[8] = "-"
       /\ \A i \in {1, 2, 3, 4, 6, 7, 9, 10} : s[i] \in Digits
    THEN LET y == DigitValue(s[1]) * 1000 + DigitValue(s[2]) * 100
                  + DigitValue(s[3]) * 10 + DigitValue(s[4])
             m == DigitValue(s[6]) * 10 + DigitValue(s[7])
             d == DigitValue(s[9]) * 10 + DigitValue(s[10])
         IN  IF y >= 1 /\ m \in 1..12 /\ d >= 1 /\ d <= DaysInMonth(y, m)
             THEN Some([year |-> y, month |-> m, day |-> d])
             ELSE None
    ELSE None

\* a < b for datetime.date
DateLess(a, b) ==
    \/ a.year < b.year
    \/ a.year = b.year /\ a.month < b.month
    \/ a.year = b.year /\ a.month = b.month /\ a.day < b.day

\* parse_date: Optional[str] -> Optional[date]
parse_date(value) ==
    IF value = None \/ value[1] = <<>> THEN None
    ELSE FromIsoFormat(value[1])

(***************************************************************************)
(* Pure helpers of the router                                              *)
(***************************************************************************)
info == <<"i", "n", "f", "o">>

success == <<"s", "u", "c", "c", "e", "s", "s">>

warning == <<"w", "a", "r", "n", "i", "n", "g">>

ALLOWED_LEVELS == {info, success, warning}

\* normalize_level with the lower() dropped
normalize_level_case_sensitive(value) ==
    IF ~Truthy(value) THEN info
    ELSE IF value[1] \in ALLOWED_LEVELS THEN value[1] ELSE info

\* normalize_level: Optional[str] -> str
normalize_level(value) ==
    IF ~Truthy(value) THEN info
    ELSE LET normalized == Lower(value[1])
         IN  IF normalized \in ALLOWED_LEVELS THEN normalized ELSE info

\* serialize_announcement: the stored document with _id renamed to id
serialize_announcement(doc) ==
    [id         |-> doc._id,
     message    |-> doc.message,
     start_date |-> doc.start_date,
     end_date   |-> doc.end_date,
     level      |-> doc.level,
     created_at |-> doc.created_at,
     updated_at |-> doc.updated_at]

\* the teacher directory: the _id values of teachers_collection
teachers_collection == {"mchen"}

HTTPException(status_code, detail) ==
    [status_code |-> status_code, detail |-> detail]

\* require_teacher with the directory lookup dropped
require_teacher_without_lookup(teacher_username) ==
    IF teacher_username = None \/ teacher_username[1] = ""
    THEN Some(HTTPException(401, "Authentication required"))
    ELSE None

\* require_teacher: <<>> when the call may proceed, else the exception raised
require_teacher(teacher_username) ==
    IF teacher_username = None \/ teacher_username[1] = ""
    THEN Some(HTTPException(401, "Authentication required"))
    ELSE IF teacher_username[1] \notin teachers_collection
         THEN Some(HTTPException(401, "Invalid teacher credentials"))
         ELSE None

\* is_active_announcement(doc, today)
is_active_announcement(doc, today) ==
    LET start == parse_date(doc.start_date)
        end   == parse_date(Some(doc.end_date))
    IN  IF end = None THEN FALSE
        ELSE IF start # None /\ DateLess(today, start[1]) THEN FALSE
        ELSE ~DateLess(end[1], today)

(***************************************************************************)
(* The document store: a collection is the sequence of its documents in    *)
(* insertion order                                                         *)
(***************************************************************************)
\* collection.find_one({"_id": id})
find_one(coll, id) ==
    IF \E i \in 1..Len(coll) : coll[i]._id = id
    THEN Some(coll[CHOOSE i \in 1..Len(coll) :
                     coll[i]._id = id /\ \A j \in 1..(i - 1) : coll[j]._id # id])
    ELSE None

\* collection.insert_one(record)
insert_one(coll, record) == Append(coll, record)

\* {"$set": fields} applied to one document
SetFields(doc, fields) ==
    [k \in DOMAIN doc \cup DOMAIN fields |->
        IF k \in DOMAIN fields THEN fields[k] ELSE doc[k]]

\* collection.update_one({"_id": id}, {"$set": fields}): no upsert
update_one(coll, id, fields) ==
    [i \in 1..Len(coll) |->
        IF coll[i]._id = id /\ \A j \in 1..(i - 1) : coll[j]._id # id
        THEN SetFields(coll[i], fields)
        ELSE coll[i]]

RECURSIVE RemoveFirst(_, _)
RemoveFirst(coll, id) ==
    IF coll = <<>> THEN <<>>
    ELSE IF Head(coll)._id = id THEN Tail(coll)
    ELSE <<Head(coll)>> \o RemoveFirst(Tail(coll), id)

\* delete_one that reports the match and leaves the document in place
delete_one_keeps_document(coll, id) ==
    [coll          |-> coll,
     deleted_count |-> IF \E i \in 1..Len(coll) : coll[i]._id = id THEN 1 ELSE 0]

\* collection.delete_one({"_id": id})
delete_one(coll, id) ==
    [coll          |-> RemoveFirst(coll, id),
     deleted_count |-> IF find_one(coll, id) = None THEN 0 ELSE 1]

\* list.sort(key=...): the stable ascending sort; keys[i] is the key of
\* items[i], and keys are strings
SortBy(items, keys) ==
    LET n == Len(items)
        Rank(i) ==
            1 + Cardinality({j \in 1..n :
                    \/ StrLess(keys[j], keys[i])
                    \/ ~StrLess(keys[i], keys[j]) /\ j < i})
    IN  [r \in 1..n |-> items[CHOOSE i \in 1..n : Rank(i) = r]]

(***************************************************************************)
(* The endpoints.  Each is an operator from the request and the collection *)
(* to the response and the collection after the call.                      *)
(***************************************************************************)
\* a raised HTTPException ends the request; nothing further is written
Raise(exc, coll) ==
    [status_code |-> exc.status_code, body |-> exc.detail, coll |-> coll]

Return(body, coll) == [status_code |-> 200, body |-> body, coll |-> coll]

MAX_DATE_KEY == <<"9", "9", "9", "9", "-", "1", "2", "-", "3", "1">>

\* key=lambda item: item.get("end_date") or "9999-12-31", for each item
EndDateKey(items) ==
    [i \in 1..Len(items) |->
        IF items[i].end_date = <<>> THEN MAX_DATE_KEY ELSE items[i].end_date]

\* key=lambda item: item.get("created_at", ""), for each item
CreatedAtKey(items) == [i \in 1..Len(items) |-> items[i].created_at]

Serialized(docs) == [i \in 1..Len(docs) |-> serialize_announcement(docs[i])]

\* GET /announcements
get_active_announcements(today, coll) ==
    LET Active(doc) == is_active_announcement(doc, today)
        announcements == Serialized(SelectSeq(coll, Active))
    IN  Return(SortBy(announcements, EndDateKey(announcements)), coll)

\* GET /announcements/all
get_all_announcements(teacher_username, coll) ==
    LET denied == require_teacher(teacher_username)
    IN  IF denied # None THEN Raise(denied[1], coll)
        ELSE LET announcements == Serialized(coll)
             IN  Return(SortBy(announcements, CreatedAtKey(announcements)),
                        coll)

\* the record create_announcement builds (lines 129-137)
NewRecord(payload, announcement_id, now_iso) ==
    [_id        |-> announcement_id,
     message    |-> Strip(payload.message),
     start_date |-> OrNone(payload.start_date),
     end_date   |-> payload.end_date,
     level      |-> normalize_level(payload.level),
     created_at |-> now_iso,
     updated_at |-> now_iso]

\* the date checks of create_announcement (lines 118-125): TRUE when it raises 400
CreateRejects(payload) ==
    LET start_date == parse_date(payload.start_date)
        end_date   == parse_date(Some(payload.end_date))
    IN  \/ end_date = None
        \/ start_date # None /\ DateLess(end_date[1], start_date[1])

\* POST /announcements
create_announcement(payload, teacher_username, announcement_id, now_iso, coll) ==
    LET denied == require_teacher(teacher_username)
    IN  IF denied # None THEN Raise(denied[1], coll)
        ELSE IF CreateRejects(payload)
             THEN Raise(HTTPException(400, "Invalid request"), coll)
             ELSE LET record == NewRecord(payload, announcement_id, now_iso)
                  IN  Return(serialize_announcement(record), insert_one(coll, record))

\* the per-field checks with the end_date check dropped
UpdateRejectsField_start_only(payload) ==
    /\ payload.start_date # None
    /\ Truthy(payload.start_date)
    /\ parse_date(payload.start_date) = None

\* the per-field checks of update_announcement (lines 162-172): TRUE when one raises 400
UpdateRejectsField(payload) ==
    \/ /\ payload.start_date # None
       /\ Truthy(payload.start_date)
       /\ parse_date(payload.start_date) = None
    \/ /\ payload.end_date # None
       /\ parse_date(payload.end_date) = None

\* update_fields built from every field of the payload, supplied or not
UpdateFields_writes_every_field(payload, now_iso) ==
    [updated_at |-> now_iso,
     message    |-> IF payload.message = None THEN <<>> ELSE Strip(payload.message[1]),
     start_date |-> OrNone(payload.start_date),
     end_date   |-> IF payload.end_date = None THEN <<>> ELSE payload.end_date[1],
     level      |-> normalize_level(payload.level)]

\* update_fields as built by lines 157-175: only the supplied fields, and updated_at
UpdateFields(payload, now_iso) ==
    LET keys == {"updated_at"}
                \cup (IF payload.message # None THEN {"message"} ELSE {})
                \cup (IF payload.start_date # None THEN {"start_date"} ELSE {})
                \cup (IF payload.end_date # None THEN {"end_date"} ELSE {})
                \cup (IF payload.level # None THEN {"level"} ELSE {})
    IN  [k \in keys |->
            CASE k = "updated_at" -> now_iso
              [] k = "message"    -> Strip(payload.message[1])
              [] k = "start_date" -> OrNone(payload.start_date)
              [] k = "end_date"   -> payload.end_date[1]
              [] k = "level"      -> normalize_level(payload.level)]

\* the re-validation of the merged result (lines 181-184): TRUE when it raises 400
MergedRejects(update_fields, existing) ==
    LET start == parse_date(IF "start_date" \in DOMAIN update_fields
                            THEN update_fields["start_date"]
                            ELSE existing.start_date)
        end   == parse_date(Some(IF "end_date" \in DOMAIN update_fields
                                 THEN update_fields["end_date"]
                                 ELSE existing.end_date))
    IN  \/ end = None
        \/ start # None /\ DateLess(end[1], start[1])

\* the response built from the re-fetched document (lines 192-193);
\* serialize_announcement(None) raises, which the framework answers with 500
Refetched(coll, announcement_id) ==
    LET updated == find_one(coll, announcement_id)
    IN  IF updated = None
        THEN Raise(HTTPException(500, "Internal Server Error"), coll)
        ELSE Return(serialize_announcement(updated[1]), coll)

\* update_announcement up to its write (lines 155-184): the exception it
\* raises, or <<>> when it goes on to update_one
UpdateRaises(announcement_id, payload, teacher_username, now_iso, coll) ==
    LET denied == require_teacher(teacher_username)
    IN  IF denied # None THEN denied
        ELSE IF UpdateRejectsField(payload)
             THEN Some(HTTPException(400, "Invalid request"))
        ELSE LET existing == find_one(coll, announcement_id)
             IN  IF existing = None
                 THEN Some(HTTPException(404, "Announcement not found"))
                 ELSE IF MergedRejects(UpdateFields(payload, now_iso), existing[1])
                      THEN Some(HTTPException(400, "Invalid request"))
                      ELSE None

\* PUT /announcements/{announcement_id}
update_announcement(announcement_id, payload, teacher_username, now_iso, coll) ==
    LET raised == UpdateRaises(announcement_id, payload, teacher_username, now_iso, coll)
    IN  IF raised # None THEN Raise(raised[1], coll)
        ELSE Refetched(update_one(coll, announcement_id,
                                  UpdateFields(payload, now_iso)),
                       announcement_id)

\* DELETE /announcements/{announcement_id}
delete_announcement(announcement_id, teacher_username, coll) ==
    LET denied == require_teacher(teacher_username)
    IN  IF denied # None THEN Raise(denied[1], coll)
        ELSE LET result == delete_one(coll, announcement_id)
             IN  IF result.deleted_count = 0
                 THEN Raise(HTTPException(404, "Announcement not found"), coll)
                 ELSE Return([message |-> "Announcement deleted"], result.coll)

(***************************************************************************)
(* Request inputs                                                          *)
(***************************************************************************)
\* how many ids uuid4 hands out in a run
MaxIds == 2

MessageMinLength == 1

MessageMaxLength == 280

MarchTenth == <<"2", "0", "2", "4", "-", "0", "3", "-", "1", "0">>

SeptemberTwentieth == <<"2", "0", "2", "4", "-", "0", "9", "-", "2", "0">>

FebruaryThirtieth == <<"2", "0", "2", "4", "-", "0", "2", "-", "3", "0">>

NotADate == <<"n", "o", "t", "-", "a", "-", "d", "a", "t", "e">>

\* values of datetime.utcnow().isoformat()
EightOClock ==
    <<"2", "0", "2", "4", "-", "0", "1", "-", "0", "5", "T",
      "0", "8", ":", "0", "0", ":", "0", "0">>

HalfPastNine ==
    <<"2", "0", "2", "4", "-", "0", "1", "-", "0", "5", "T",
      "0", "9", ":", "3", "0", ":", "0", "0">>

Instants == {EightOClock, HalfPastNine}

\* values of date.today()
Todays ==
    {[year |-> 2024, month |-> 1, day |-> 1],
     [year |-> 2024, month |-> 3, day |-> 10],
     [year |-> 2024, month |-> 6, day |-> 1],
     [year |-> 2024, month |-> 9, day |-> 20],
     [year |-> 2024, month |-> 12, day |-> 1]}

TeacherInputs == {None, Some(""), Some("mchen"), Some("intruder")}

AnnouncementIds == 1..MaxIds

Blank == <<" ">>

PaddedHi == <<" ", "H", "i", " ">>

MessageInputs == {<<>>, Blank, PaddedHi}

StartDateInputs == {None, Some(<<>>), Some(MarchTenth), Some(SeptemberTwentieth), Some(NotADate)}

EndDateInputs == {MarchTenth, SeptemberTwentieth, FebruaryThirtieth}

WARNING == <<"W", "A", "R", "N", "I", "N", "G">>

bogus == <<"b", "o", "g", "u", "s">>

LevelInputs == {None, Some(warning), Some(WARNING), Some(bogus)}

\* Field(..., min_length=1, max_length=280)
ValidMessage(message) ==
    Len(message) >= MessageMinLength /\ Len(message) <= MessageMaxLength

\* the instances of AnnouncementCreate
AnnouncementCreate ==
    {p \in [message : MessageInputs, start_date : StartDateInputs,
            end_date : EndDateInputs, level : LevelInputs] :
        ValidMessage(p.message)}

\* the instances of AnnouncementUpdate
AnnouncementUpdate ==
    {p \in [message : {None} \cup {Some(m) : m \in MessageInputs},
            start_date : StartDateInputs,
            end_date : {None, Some(<<>>)} \cup {Some(d) : d \in EndDateInputs},
            level : LevelInputs] :
        p.message # None => ValidMessage(p.message[1])}

(***************************************************************************)
(* The requests the clients of each specification send.  The claims are    *)
(* stated over every instance of AnnouncementCreate and AnnouncementUpdate *)
(* at every reachable collection; the clients below decide which           *)
(* collections are reached.                                                *)
(***************************************************************************)
\* clients that vary message, level and the presence of start_date
FieldCreates ==
    {p \in AnnouncementCreate :
        /\ p.start_date \in {None, Some(MarchTenth)}
        /\ p.end_date \in {SeptemberTwentieth, FebruaryThirtieth}
        /\ p.level \in {None, Some(WARNING)}}

FieldUpdates ==
    {p \in AnnouncementUpdate :
        /\ p.start_date \in {None, Some(<<>>), Some(MarchTenth), Some(NotADate)}
        /\ p.end_date = None
        /\ p.level \in {None, Some(WARNING), Some(bogus)}}

\* clients that vary the dates only
DateCreates ==
    {p \in AnnouncementCreate : p.message = PaddedHi /\ p.level = None}

DateUpdates ==
    {p \in AnnouncementUpdate : p.message = None /\ p.level = None}

\* clients of the concurrent specification: one kind of announcement, updates
\* that move one end of its window
RaceCreates ==
    {p \in DateCreates :
        p.start_date = Some(MarchTenth) /\ p.end_date = SeptemberTwentieth}

RaceUpdates ==
    {p \in DateUpdates :
        \/ p.start_date = Some(SeptemberTwentieth) /\ p.end_date = None
        \/ p.start_date = None /\ p.end_date = Some(MarchTenth)
        \/ p.start_date = Some(MarchTenth) /\ p.end_date = Some(SeptemberTwentieth)}

(***************************************************************************)
(* State                                                                   *)
(***************************************************************************)
VARIABLES
    announcements,  \* announcements_collection
    issued,         \* how many ids uuid4 has handed out
    resp,           \* the response being sent: which endpoint answered, and its status
    inflight        \* per worker, the update request it is in the middle of

vars == <<announcements, issued, resp, inflight>>

Workers == {"w1", "w2"}

Idle == [pc |-> "idle"]

\* uuid.uuid4().hex: a value no earlier call returned
uuid4(n) == n + 1

NoResponse == [op |-> "none", status_code |-> 0]

\* no response is on its way out: the next request can be taken
Ready == resp = NoResponse

Init ==
    /\ announcements = <<>>
    /\ issued = 0
    /\ resp = NoResponse
    /\ inflight = [w \in Workers |-> Idle]

Answered(op, r) == resp' = [op |-> op, status_code |-> r.status_code]

\* the response reaches the client
SendResponse ==
    /\ ~Ready
    /\ resp' = NoResponse
    /\ UNCHANGED <<announcements, issued, inflight>>

GetActiveAnnouncements ==
    /\ Ready
    /\ \E today \in Todays :
        \E r \in {get_active_announcements(today, announcements)} :
            /\ announcements' = r.coll
            /\ Answered("get_active_announcements", r)
            /\ UNCHANGED <<issued, inflight>>

GetAllAnnouncements ==
    /\ Ready
    /\ \E teacher_username \in TeacherInputs :
        \E r \in {get_all_announcements(teacher_username, announcements)} :
            /\ announcements' = r.coll
            /\ Answered("get_all_announcements", r)
            /\ UNCHANGED <<issued, inflight>>

CreateAnnouncement(payloads, instants) ==
    /\ Ready
    /\ \E payload \in payloads, teacher_username \in TeacherInputs, now_iso \in instants :
        \E r \in {create_announcement(payload, teacher_username, uuid4(issued),
                                     now_iso, announcements)} :
            /\ r.status_code = 200 => issued < MaxIds
            /\ announcements' = r.coll
            /\ issued' = IF r.status_code = 200 THEN issued + 1 ELSE issued
            /\ Answered("create_announcement", r)
            /\ UNCHANGED inflight

UpdateAnnouncement(payloads, instants) ==
    /\ Ready
    /\ \E announcement_id \in AnnouncementIds, payload \in payloads,
          teacher_username \in TeacherInputs, now_iso \in instants :
        \E r \in {update_announcement(announcement_id, payload, teacher_username,
                                     now_iso, announcements)} :
            /\ announcements' = r.coll
            /\ Answered("update_announcement", r)
            /\ UNCHANGED <<issued, inflight>>

DeleteAnnouncement ==
    /\ Ready
    /\ \E announcement_id \in AnnouncementIds, teacher_username \in TeacherInputs :
        \E r \in {delete_announcement(announcement_id, teacher_username, announcements)} :
            /\ announcements' = r.coll
            /\ Answered("delete_announcement", r)
            /\ UNCHANGED <<issued, inflight>>

\* requests handled one at a time
Next ==
    \/ SendResponse
    \/ GetActiveAnnouncements
    \/ GetAllAnnouncements
    \/ CreateAnnouncement(FieldCreates, {EightOClock})
    \/ UpdateAnnouncement(FieldUpdates, {EightOClock})
    \/ DeleteAnnouncement

Spec == Init /\ [][Next]_vars

NextDates ==
    \/ SendResponse
    \/ GetActiveAnnouncements
    \/ GetAllAnnouncements
    \/ CreateAnnouncement(DateCreates, Instants)
    \/ UpdateAnnouncement(DateUpdates, Instants)
    \/ DeleteAnnouncement

SpecDates == Init /\ [][NextDates]_vars

(***************************************************************************)
(* Concurrent requests: workers interleave at single store operations.     *)
(* Every endpoint but update performs one operation on the announcements   *)
(* collection; update performs find_one, update_one, find_one.             *)
(***************************************************************************)
\* lines 155-184: the checks and the first find_one
UpdateBegin(w, payloads, instants) ==
    /\ Ready
    /\ inflight[w] = Idle
    /\ \E announcement_id \in AnnouncementIds, payload \in payloads,
          teacher_username \in TeacherInputs, now_iso \in instants :
        \E raised \in {UpdateRaises(announcement_id, payload, teacher_username,
                                    now_iso, announcements)} :
            IF raised # None
            THEN /\ Answered("update_announcement", raised[1])
                 /\ UNCHANGED <<announcements, issued, inflight>>
            ELSE /\ inflight' = [inflight EXCEPT ![w] =
                        [pc |-> "update_one",
                         announcement_id |-> announcement_id,
                         update_fields |-> UpdateFields(payload, now_iso)]]
                 /\ UNCHANGED <<announcements, issued, resp>>

\* line 187: update_one
UpdateWrite(w) ==
    /\ inflight[w].pc = "update_one"
    /\ announcements' = update_one(announcements, inflight[w].announcement_id,
                                   inflight[w].update_fields)
    /\ inflight' = [inflight EXCEPT ![w] =
            [pc |-> "find_one", announcement_id |-> inflight[w].announcement_id]]
    /\ UNCHANGED <<issued, resp>>

\* lines 192-193: the second find_one and the response
UpdateRefetch(w) ==
    /\ Ready
    /\ inflight[w].pc = "find_one"
    /\ \E r \in {Refetched(announcements, inflight[w].announcement_id)} :
            Answered("update_announcement", r)
    /\ inflight' = [inflight EXCEPT ![w] = Idle]
    /\ UNCHANGED <<announcements, issued>>

NextConc ==
    \/ SendResponse
    \/ GetActiveAnnouncements
    \/ GetAllAnnouncements
    \/ CreateAnnouncement(RaceCreates, {EightOClock})
    \/ DeleteAnnouncement
    \/ \E w \in Workers : UpdateBegin(w, RaceUpdates, {EightOClock})
    \/ \E w \in Workers : UpdateWrite(w)
    \/ \E w \in Workers : UpdateRefetch(w)

SpecConc == Init /\ [][NextConc]_vars

(***************************************************************************)
(* Vocabulary of the claims.  A claim about what a request does is stated  *)
(* at every state in which a request can be taken (Ready), for every       *)
(* request of its kind.                                                    *)
(***************************************************************************)
\* teacher_username missing, empty, or not in the teacher directory
Unauthorized ==
    {t \in TeacherInputs : t = None \/ t[1] = "" \/ t[1] \notin teachers_collection}

Authorized == TeacherInputs \ Unauthorized

Stored == {announcements[i] : i \in 1..Len(announcements)}

StoredIds == {doc._id : doc \in Stored}

\* a response that ends with status 401 and leaves the collection as it was
Denied(r) == r.status_code = 401 /\ r.coll = announcements

(***************************************************************************)
(* C1.  For create, update, delete and list-all, a call whose              *)
(* teacher_username is missing, empty or not in the teacher directory ends *)
(* with 401 and leaves the announcement collection exactly as it was,      *)
(* whatever the payload and the id.                                        *)
(***************************************************************************)
C1_UnauthorizedChangesNothing ==
    Ready =>
    \A t \in Unauthorized :
        /\ Denied(get_all_announcements(t, announcements))
        /\ \A payload \in AnnouncementCreate, now_iso \in Instants :
              Denied(create_announcement(payload, t, uuid4(issued), now_iso,
                                         announcements))
        /\ \A id \in AnnouncementIds :
              /\ Denied(delete_announcement(id, t, announcements))
              /\ \A payload \in AnnouncementUpdate, now_iso \in Instants :
                    Denied(update_announcement(id, payload, t, now_iso, announcements))

\* an unauthorized update has just been answered while announcements are stored
C1_Witness ==
    /\ resp = [op |-> "update_announcement", status_code |-> 401]
    /\ announcements # <<>>

(***************************************************************************)
(* C4.  As claimed: an authorized update whose id matches no stored        *)
(* announcement ends with 404 for every payload, also one whose end_date   *)
(* or start_date does not parse, and the collection is unchanged.          *)
(***************************************************************************)
C4_MissingIdAlwaysNotFound ==
    Ready =>
    \A t \in Authorized, id \in AnnouncementIds \ StoredIds,
       payload \in AnnouncementUpdate, now_iso \in Instants :
        LET r == update_announcement(id, payload, t, now_iso, announcements)
        IN  r.status_code = 404 /\ r.coll = announcements

\* a supplied end_date that is no date, or a supplied non-empty start_date that is no date
SuppliesBadDate(payload) ==
    \/ payload.end_date # None /\ FromIsoFormat(payload.end_date[1]) = None
    \/ /\ payload.start_date \notin {None, Some(<<>>)}
       /\ FromIsoFormat(payload.start_date[1]) = None

(***************************************************************************)
(* C4, amended.  An authorized update whose id matches no stored           *)
(* announcement ends with 400 when the payload supplies an end_date that   *)
(* does not parse or a non-empty start_date that does not parse, and with  *)
(* 404 for every other payload; the collection is unchanged either way.    *)
(***************************************************************************)
C4_MissingIdNotFoundUnlessBadDate ==
    Ready =>
    \A t \in Authorized, id \in AnnouncementIds \ StoredIds,
       payload \in AnnouncementUpdate, now_iso \in Instants :
        LET r == update_announcement(id, payload, t, now_iso, announcements)
        IN  /\ r.status_code = IF SuppliesBadDate(payload) THEN 400 ELSE 404
            /\ r.coll = announcements

\* an update of an id that was issued and is gone has just been answered 404
C4_Witness ==
    /\ resp = [op |-> "update_announcement", status_code |-> 404]
    /\ issued = MaxIds
    /\ StoredIds # AnnouncementIds

\* the documents of coll with the given id
DocsWithId(coll, id) == {coll[i] : i \in {j \in 1..Len(coll) : coll[j]._id = id}}

\* what an authorized list-all answers for collection coll
ListedAll(coll, t) == get_all_announcements(t, coll).body

\* what list-active answers for collection coll on the given day
ListedActive(coll, today) == get_active_announcements(today, coll).body

Rows(listing) == {listing[i] : i \in 1..Len(listing)}

\* document after keeps the value of before in every field but those named
SameExcept(before, after, fields) ==
    /\ DOMAIN after = DOMAIN before
    /\ \A k \in DOMAIN before \ fields : after[k] = before[k]

\* the fields of a stored document an update payload supplies
Supplied(payload) ==
    {k \in {"message", "start_date", "end_date", "level"} : payload[k] # None}

(***************************************************************************)
(* C5.  A successful update changes only the fields the payload supplies,  *)
(* and updated_at: _id, created_at and every unsupplied field of the       *)
(* target keep their values, every other record is untouched, a payload    *)
(* that omits start_date preserves it, and a payload with start_date = ""  *)
(* stores start_date as absent (a later list-all shows it absent) and,     *)
(* unless it supplies end_date too, leaves end_date as it was.             *)
(***************************************************************************)
C5_UpdateChangesOnlySuppliedFields ==
    Ready =>
    \A t \in Authorized, id \in AnnouncementIds,
       payload \in AnnouncementUpdate, now_iso \in Instants :
        LET r == update_announcement(id, payload, t, now_iso, announcements)
        IN  r.status_code = 200 =>
            /\ Len(r.coll) = Len(announcements)
            /\ \A i \in 1..Len(announcements) :
                  IF announcements[i]._id = id
                  THEN SameExcept(announcements[i], r.coll[i],
                                  Supplied(payload) \cup {"updated_at"})
                  ELSE r.coll[i] = announcements[i]
            /\ payload.start_date = Some(<<>>) =>
                  \A row \in Rows(ListedAll(r.coll, t)) :
                      row.id = id => row.start_date = None

\* an update has just succeeded on a collection of two announcements, one of which
\* has no start_date and a level other than the default
C5_Witness ==
    /\ resp = [op |-> "update_announcement", status_code |-> 200]
    /\ Len(announcements) = 2
    /\ \E doc \in Stored : doc.start_date = None /\ doc.level = warning

\* an authorized delete of a stored id succeeds, the same delete repeated right
\* after it ends with 404, the record is in neither listing, and no update of
\* that id brings it back
C6_DeleteTwice ==
    Ready =>
    \A t \in Authorized, id \in StoredIds :
        LET first == delete_announcement(id, t, announcements)
        IN  /\ first.status_code = 200
            /\ first.body = [message |-> "Announcement deleted"]
            /\ delete_announcement(id, t, first.coll).status_code = 404
            /\ \A row \in Rows(ListedAll(first.coll, t)) : row.id # id
            /\ \A today \in Todays :
                  \A row \in Rows(ListedActive(first.coll, today)) : row.id # id
            /\ \A payload \in AnnouncementUpdate, now_iso \in Instants :
                  DocsWithId(update_announcement(id, payload, t, now_iso,
                                                 first.coll).coll, id) = {}

\* in a step, an id that was issued and is not stored stays out of the collection
C6_GoneStaysGone ==
    \A id \in 1..issued : id \notin StoredIds => id \notin StoredIds'

(***************************************************************************)
(* C6.  An authorized delete of a stored id succeeds, and the same delete  *)
(* repeated right after it ends with 404; the deleted record is in neither *)
(* list-active nor list-all, no update of that id brings it back, and in   *)
(* every step of the system an id that was issued and is no longer stored  *)
(* stays out of the collection.                                            *)
(***************************************************************************)
C6_DeletionIsPermanent == [](C6_DeleteTwice) /\ [][C6_GoneStaysGone]_vars

\* a delete of an id that was issued and is gone has just been answered 404,
\* while the announcement created after it is still stored
C6_Witness ==
    /\ resp = [op |-> "delete_announcement", status_code |-> 404]
    /\ issued = MaxIds
    /\ StoredIds = {MaxIds}

\* the levels the claim allows for a submitted level: the submitted level when it
\* is one of the allowed ones (however case is read), "info" when it is not
C8_ClaimedLevels(level) ==
    {IF level # None /\ level[1] \in ALLOWED_LEVELS THEN level[1] ELSE info}
    \cup (IF level # None /\ Lower(level[1]) \in ALLOWED_LEVELS THEN {level[1]} ELSE {})

\* the level for a submitted level when it is lower-cased first
C8_LowerCasedLevels(level) ==
    {IF level # None /\ Lower(level[1]) \in ALLOWED_LEVELS THEN Lower(level[1]) ELSE info}

\* the submitted start_date, with empty and missing both read as absent
C8_SubmittedStart(start_date) ==
    IF start_date = None \/ start_date = Some(<<>>) THEN None ELSE start_date

\* message m is s without its surrounding whitespace
C8_Trimmed(m, s) ==
    /\ m = <<>> \/ (Head(m) \notin Whitespace /\ m[Len(m)] \notin Whitespace)
    /\ \E i \in 0..Len(s), j \in 0..Len(s) :
          /\ i + Len(m) + j = Len(s)
          /\ m = SubSeq(s, i + 1, i + Len(m))
          /\ \A k \in (1..i) \cup ((Len(s) - j + 1)..Len(s)) : s[k] \in Whitespace

\* after a successful create, list-all holds exactly one record with the returned id,
\* and its fields are the submitted ones, the level among ExpectedLevels[level]
\* for the submitted level
C8_RoundTrip(ExpectedLevels) ==
    Ready =>
    \A t \in Authorized, payload \in AnnouncementCreate, now_iso \in Instants :
        LET r == create_announcement(payload, t, uuid4(issued), now_iso, announcements)
            rows == {row \in Rows(ListedAll(r.coll, t)) : row.id = r.body.id}
        IN  r.status_code = 200 =>
            /\ Cardinality({i \in 1..Len(r.coll) : r.coll[i]._id = r.body.id}) = 1
            /\ Cardinality(rows) = 1
            /\ \A row \in rows :
                  /\ C8_Trimmed(row.message, payload.message)
                  /\ row.start_date = C8_SubmittedStart(payload.start_date)
                  /\ row.end_date = payload.end_date
                  /\ row.level \in ExpectedLevels[payload.level]
                  /\ row.created_at = row.updated_at
                  /\ row = r.body

(***************************************************************************)
(* C8.  As claimed: after a successful create, an authorized list-all      *)
(* holds exactly one record with the returned id, with the message         *)
(* trimmed, start_date and end_date as submitted (empty or missing         *)
(* start_date absent), created_at equal to updated_at, and the level equal *)
(* to the submitted level when that is one of info, success, warning and   *)
(* "info" for anything else.                                               *)
(***************************************************************************)
C8_RoundTripSubmittedLevel ==
    C8_RoundTrip([level \in LevelInputs |-> C8_ClaimedLevels(level)])

(***************************************************************************)
(* C8, amended.  The same round trip, with the level lower-cased first:    *)
(* the stored level is the lower-cased submitted level when that is one    *)
(* of info, success, warning, and "info" otherwise.                        *)
(***************************************************************************)
C8_RoundTripLowerCasedLevel ==
    C8_RoundTrip([level \in LevelInputs |-> C8_LowerCasedLevels(level)])

\* a create has just succeeded, and an announcement submitted with level "WARNING"
\* and a padded message is stored with level "warning" and the message trimmed
C8_Witness ==
    /\ resp = [op |-> "create_announcement", status_code |-> 200]
    /\ \E doc \in Stored : doc.level = warning /\ doc.message = <<"H", "i">>

\* s is the text of a date
IsDate(s) == FromIsoFormat(s) # None

\* the date written as a is later than the date written as b
Later(a, b) == DateLess(FromIsoFormat(b)[1], FromIsoFormat(a)[1])

(***************************************************************************)
(* C2.  After any sequence of create, update and delete requests handled   *)
(* one at a time from an empty collection, every stored announcement has   *)
(* an end_date that is a date and, when its start_date is present, a       *)
(* start_date that is a date not later than its end_date.                  *)
(***************************************************************************)
C2_StoredWindowsAreValid ==
    \A doc \in Stored :
        /\ IsDate(doc.end_date)
        /\ doc.start_date # None =>
              /\ IsDate(doc.start_date[1])
              /\ ~Later(doc.start_date[1], doc.end_date)

\* the payloads the spec has create refuse
C3_MustBeRefused(payload) ==
    \/ ~IsDate(payload.end_date)
    \/ /\ payload.start_date \notin {None, Some(<<>>)}
       /\ \/ ~IsDate(payload.start_date[1])
          \/ IsDate(payload.end_date) /\ Later(payload.start_date[1], payload.end_date)

(***************************************************************************)
(* C3.  An authorized create ends with 400 and stores nothing whenever     *)
(* end_date is not a date, or a start_date is provided and is not a date,  *)
(* or a start_date is provided and is later than end_date.                 *)
(***************************************************************************)
C3_CreateRefusesBadDates ==
    Ready =>
    \A t \in Authorized, payload \in AnnouncementCreate, now_iso \in Instants :
        LET r == create_announcement(payload, t, uuid4(issued), now_iso, announcements)
        IN  C3_MustBeRefused(payload) =>
                r.status_code = 400 /\ r.coll = announcements

\* active on a day: end_date on or after it, start_date absent or on or before it
C7_ActiveOn(doc, today) ==
    /\ IsDate(doc.end_date)
    /\ ~DateLess(FromIsoFormat(doc.end_date)[1], today)
    /\ \/ doc.start_date = None
       \/ /\ IsDate(doc.start_date[1])
          /\ ~DateLess(today, FromIsoFormat(doc.start_date[1])[1])

(***************************************************************************)
(* C7.  For every reachable collection and every value of today,           *)
(* list-active answers exactly the stored records with end_date >= today   *)
(* and start_date absent or <= today, each once, and changes nothing in    *)
(* the store.                                                              *)
(***************************************************************************)
C7_ActiveListIsExact ==
    Ready =>
    \A today \in Todays :
        LET r == get_active_announcements(today, announcements)
            expected == {doc \in Stored : C7_ActiveOn(doc, today)}
        IN  /\ r.status_code = 200
            /\ r.coll = announcements
            /\ Rows(r.body) = {serialize_announcement(doc) : doc \in expected}
            /\ Len(r.body) = Cardinality(expected)

(***************************************************************************)
(* C9.  After any sequence of create and update requests, the stored       *)
(* message of every announcement has between 1 and 280 characters, also    *)
(* when the submitted message was whitespace only.                         *)
(***************************************************************************)
C9_StoredMessageLength ==
    \A doc \in Stored :
        Len(doc.message) >= MessageMinLength /\ Len(doc.message) <= MessageMaxLength

(***************************************************************************)
(* C10.  When update requests on the same announcement interleave at       *)
(* single store operations, the stored record has start_date <= end_date   *)
(* in every reachable state.                                               *)
(***************************************************************************)
C10_WindowOrderedUnderInterleaving ==
    \A doc \in Stored :
        (doc.start_date # None /\ IsDate(doc.start_date[1]) /\ IsDate(doc.end_date))
            => ~Later(doc.start_date[1], doc.end_date)

====
